---- MODULE Spec2Model ----
(***************************************************************************)
(* State-machine model of the tps-game frame loop: Game.update and the     *)
(* Player, Enemy, InputManager and EffectManager objects it drives.        *)
(*                                                                         *)
(* Units.  Time is counted in ticks of 0.05 s and length in steps of      *)
(* 0.025 world units, a grid on which every duration, speed and range of   *)
(* the source is a whole number:                                           *)
(*     0.1 s = 2 ticks,  0.5 s = 10 ticks,  1.5 units = 60 steps,          *)
(*     8.0 units/s = 16 steps per tick,  3.5 units/s = 7 steps per tick.   *)
(* A frame delta is a whole number of ticks, 1..MaxDt.                     *)
(*                                                                         *)
(* Geometry.  Positions are points <<x, y, z>> of that grid.  Distances    *)
(* are compared through their squares, so range tests are exact.  The      *)
(* player stays on the line x = 0 (the specifications below only feed      *)
(* forward/backward stick input and never turn the camera), and only       *)
(* enemies standing on that line finish loading their model, so that       *)
(* every normalised direction of a moving entity is (0, 0, +1) or          *)
(* (0, 0, -1).  Yaw is counted in eighths of a turn.                       *)
(***************************************************************************)
EXTENDS Integers, Sequences, FiniteSets, TLC

VARIABLES player, enemies, input, camera, particles, game, obs

vars == <<player, enemies, input, camera, particles, game, obs>>

(***************************************************************************)
(* Bounds of the model.                                                    *)
(***************************************************************************)
\* Largest frame delta, in ticks.
MaxDt == 6
\* The strip of the z axis the player is followed on: -MaxBehind..MaxAhead.
MaxAhead == 32
MaxBehind == 480
\* The pixels of mouse movement gathered in lookDelta, either way, and the
\* camera angle either way, in steps of rotateSpeed.
MaxLook == 2
MaxTheta == 3

(***************************************************************************)
(* Program constants, in ticks and steps.                                  *)
(***************************************************************************)
maxHp == 5
moveSpeed == 16
rollSpeed == 40
rollDuration == 10
attackDuration == 10
invincibleDuration == 20
hitWindowOpen == 2
hitWindowClose == 6
attackRange == 160
rayFar == 80
blockDistance == 60
deathPoseY == 20
\* rotateSpeed = 10 per second: a turn of diff * dt / rotatePeriod.
rotatePeriod == 2
\* The blink shows the mesh when floor(invincibleTimer * 10) is even.
blinkPeriod == 2
enemyHp == 1
enemyMoveSpeed == 7
detectionRange == 600
stopRange == 80
separationRange == 100
contactRange == 60
particleCount == 8
scorePerKill == 1000

(***************************************************************************)
(* Vector helpers (THREE.Vector3 on the grid).                             *)
(***************************************************************************)
Sgn(n) == IF n > 0 THEN 1 ELSE IF n < 0 THEN -1 ELSE 0

Abs(n) == IF n < 0 THEN -n ELSE n

Min(a, b) == IF a <= b THEN a ELSE b

\* Vector3.distanceTo, squared.
Dist2(a, b) ==
  (a[1] - b[1]) * (a[1] - b[1]) + (a[2] - b[2]) * (a[2] - b[2])
    + (a[3] - b[3]) * (a[3] - b[3])

\* (0, 0, 1).applyEuler(0, yaw, 0) as a horizontal direction <<x, z>> of
\* length 1 (even yaw) or sqrt 2 (odd yaw); yaw in eighths of a turn.
Dir8(yaw) ==
  CASE yaw % 8 = 0 -> <<0, 1>>
    [] yaw % 8 = 1 -> <<1, 1>>
    [] yaw % 8 = 2 -> <<1, 0>>
    [] yaw % 8 = 3 -> <<1, -1>>
    [] yaw % 8 = 4 -> <<0, -1>>
    [] yaw % 8 = 5 -> <<-1, -1>>
    [] yaw % 8 = 6 -> <<-1, 0>>
    [] OTHER -> <<-1, 1>>

\* Math.atan2(d.x, d.z) in eighths of a turn, for a direction <<x, z>> whose
\* components are in -1..1 and not both zero.
Atan2Eighths(d) ==
  CASE d = <<0, 1>> -> 0
    [] d = <<1, 1>> -> 1
    [] d = <<1, 0>> -> 2
    [] d = <<1, -1>> -> 3
    [] d = <<0, -1>> -> 4
    [] d = <<-1, -1>> -> -3
    [] d = <<-1, 0>> -> -2
    [] OTHER -> -1

\* The sign of a2 * d - n for d > 0, without forming the product.
SgnScaled(a2, d, n) ==
  IF a2 > n \div d THEN 1
  ELSE IF a2 = n \div d /\ n % d = 0 THEN 0
  ELSE -1

\* The sign of |a| / sqrt(a * a + h2) - |p| / q for a # 0, p # 0, q > 0:
\* that of a * a * (q * q - p * p) - p * p * h2.
SgnRootDiff(a, h2, p, q) ==
  IF h2 = 0 THEN Sgn(q * q - p * p)
  ELSE IF q * q - p * p <= 0 THEN -1
  ELSE SgnScaled(a * a, q * q - p * p, p * p * h2)

\* The sign of a / sqrt(a * a + h2) + p / q, for q > 0 and a * a + h2 > 0.
SgnRootSum(a, h2, p, q) ==
  IF a >= 0 /\ p >= 0 THEN (IF a = 0 /\ p = 0 THEN 0 ELSE 1)
  ELSE IF a <= 0 /\ p <= 0 THEN -1
  ELSE Sgn(a) * SgnRootDiff(a, h2, p, q)

(***************************************************************************)
(* Level: the two obstacles the z axis crosses, as the z of their faces.   *)
(* The ray of checkCollision starts 1.0 above the feet, inside the height  *)
(* of both boxes.                                                          *)
(***************************************************************************)
\* createWall(4, 2, 4, (0, 1, 8)) and createWall(10, 3, 2, (0, 1.5, -10)).
obstacles == << [lo |-> 240, hi |-> 400], [lo |-> -440, hi |-> -360] >>

(***************************************************************************)
(* Player (src/entities/Player.ts).  A player is a record; deaths,         *)
(* hitPasses and sinceHit are history fields that record what the methods  *)
(* did (calls of die(), calls of checkAttackHit in the current attack,     *)
(* ticks handed to update() since the last damage that was survived).      *)
(***************************************************************************)
PlayerStates == {"Idle", "Run", "Roll", "Attack", "Dead"}

NewPlayer ==
  [ mixer |-> FALSE, hp |-> maxHp, state |-> "Idle", stateTimer |-> 0,
    isInvincible |-> FALSE, invincibleTimer |-> 0, hasHitAttacked |-> FALSE,
    visible |-> TRUE, pos |-> <<0, 0, 0>>, yaw |-> 0, fallen |-> FALSE,
    moveDirection |-> <<0, 0>>,
    deaths |-> 0, hitPasses |-> 0, sinceHit |-> invincibleDuration ]

SwitchState(p, newState) ==
  [p EXCEPT !.state = newState,
            !.stateTimer = 0,
            !.hasHitAttacked = IF newState = "Attack" THEN FALSE ELSE @,
            !.hitPasses = IF newState = "Attack" THEN 0 ELSE @]

\* A load callback that sets the player up afresh, hp included.
LoadModelAfresh(p) ==
  SwitchState([p EXCEPT !.mixer = TRUE, !.hp = maxHp, !.isInvincible = FALSE], "Idle")

\* The callback of loader.load: the mixer exists from now on.
LoadModel(p) == SwitchState([p EXCEPT !.mixer = TRUE], "Idle")

Die(p) ==
  [SwitchState(p, "Dead") EXCEPT !.fallen = TRUE,
                                 !.pos = <<p.pos[1], deathPoseY, p.pos[3]>>,
                                 !.deaths = @ + 1]

\* takeDamage without the Roll guard.
\* takeDamage without the isInvincible test.
TakeDamageEveryCall(p, amount) ==
  IF p.state = "Dead" \/ p.state = "Roll" THEN p
  ELSE IF p.hp - amount <= 0
    THEN Die([p EXCEPT !.hp = 0])
    ELSE [p EXCEPT !.hp = @ - amount,
                   !.isInvincible = TRUE,
                   !.invincibleTimer = invincibleDuration,
                   !.sinceHit = 0]

TakeDamageInRoll(p, amount) ==
  IF p.isInvincible \/ p.state = "Dead" THEN p
  ELSE IF p.hp - amount <= 0
    THEN Die([p EXCEPT !.hp = 0])
    ELSE [p EXCEPT !.hp = @ - amount,
                   !.isInvincible = TRUE,
                   !.invincibleTimer = invincibleDuration,
                   !.sinceHit = 0]

TakeDamage(p, amount) ==
  IF p.isInvincible \/ p.state = "Dead" \/ p.state = "Roll" THEN p
  ELSE IF p.hp - amount <= 0
    THEN Die([p EXCEPT !.hp = 0])
    ELSE [p EXCEPT !.hp = @ - amount,
                   !.isInvincible = TRUE,
                   !.invincibleTimer = invincibleDuration,
                   !.sinceHit = 0]

\* A countdown that runs at twice the speed.
UpdateInvincibleFast(p, dt) ==
  IF ~p.isInvincible THEN p
  ELSE IF p.invincibleTimer - 2 * dt <= 0
    THEN [p EXCEPT !.invincibleTimer = @ - 2 * dt,
                   !.isInvincible = FALSE,
                   !.visible = TRUE]
    ELSE [p EXCEPT !.invincibleTimer = @ - 2 * dt,
                   !.visible = (((p.invincibleTimer - 2 * dt) \div blinkPeriod) % 2 = 0)]

\* The countdown without 'mesh.visible = true' in the frame of the lapse.
UpdateInvincibleStaysHidden(p, dt) ==
  IF ~p.isInvincible THEN p
  ELSE IF p.invincibleTimer - dt <= 0
    THEN [p EXCEPT !.invincibleTimer = @ - dt, !.isInvincible = FALSE]
    ELSE [p EXCEPT !.invincibleTimer = @ - dt,
                   !.visible = (((p.invincibleTimer - dt) \div blinkPeriod) % 2 = 0)]

\* The first lines of update(): the invincibility countdown and the blink.
UpdateInvincible(p, dt) ==
  IF ~p.isInvincible THEN p
  ELSE IF p.invincibleTimer - dt <= 0
    THEN [p EXCEPT !.invincibleTimer = @ - dt,
                   !.isInvincible = FALSE,
                   !.visible = TRUE]
    ELSE [p EXCEPT !.invincibleTimer = @ - dt,
                   !.visible = (((p.invincibleTimer - dt) \div blinkPeriod) % 2 = 0)]

\* raycaster.intersectObjects along a direction <<0, +1>> or <<0, -1>>: the
\* distances to the faces that look at the ray's origin, up to raycaster.far.
RayHits(p, d) ==
  { dist \in { IF d[2] > 0 THEN obstacles[k].lo - p.pos[3]
                           ELSE p.pos[3] - obstacles[k].hi :
               k \in DOMAIN obstacles } :
    dist >= 0 /\ dist <= rayFar }

\* intersects[0].distance < 1.5 of a non-empty, sorted list of hits.
Blocks(hits) ==
  \E near \in hits : (\A other \in hits : near <= other) /\ near < blockDistance

CheckCollision(p, d) == Blocks(RayHits(p, d))

\* camera.getWorldDirection, flattened and normalised, and its right vector,
\* for the camera angle theta = 0 (behind the player, looking along -z).
CameraForward == <<0, -1>>

CameraRight == <<1, 0>>

\* calculateMoveDirection: normalize(-y * forward + x * right); the result is
\* a direction <<x, z>> with components in -1..1.
CalculateMoveDirection(p, inputDir) ==
  [p EXCEPT !.moveDirection =
     << Sgn(-inputDir.y * CameraForward[1] + inputDir.x * CameraRight[1]),
        Sgn(-inputDir.y * CameraForward[2] + inputDir.x * CameraRight[2]) >>]

WrapAngle(diff) ==
  IF diff > 4 THEN diff - 8 ELSE IF diff < -4 THEN diff + 8 ELSE diff

\* rotateToDirection: angle = atan2(x, z) + PI, diff wrapped into -PI..PI.
RotateToDirection(p, dt) ==
  [p EXCEPT !.yaw =
     (@ + (WrapAngle(Atan2Eighths(p.moveDirection) + 4 - @) * dt) \div rotatePeriod) % 8]

\* position.addScaledVector(moveDirection, speed * dt)
Advance(p, speed, dt) ==
  [p EXCEPT !.pos = << p.pos[1] + p.moveDirection[1] * speed * dt,
                       p.pos[2],
                       p.pos[3] + p.moveDirection[2] * speed * dt >>]

\* updateIdle with the roll button looked at before the stick.
UpdateIdleRollFirst(p, in) ==
  IF in.isAttackPressed THEN SwitchState(p, "Attack")
  ELSE IF in.isRollPressed
    THEN SwitchState([p EXCEPT !.moveDirection = Dir8(p.yaw)], "Roll")
  ELSE IF in.moveVector.x # 0 \/ in.moveVector.y # 0 THEN SwitchState(p, "Run")
    ELSE p

UpdateIdle(p, in) ==
  IF in.isAttackPressed THEN SwitchState(p, "Attack")
  ELSE IF in.moveVector.x # 0 \/ in.moveVector.y # 0 THEN SwitchState(p, "Run")
  ELSE IF in.isRollPressed
    THEN SwitchState([p EXCEPT !.moveDirection = Dir8(p.yaw)], "Roll")
    ELSE p

\* if (!checkCollision(moveDirection)) position.addScaledVector(...)
\* A blocked move that still creeps forward at a fortieth of a unit per tick.
MoveCreepsWhenBlocked(p, speed, dt) ==
  IF CheckCollision(p, p.moveDirection) THEN Advance(p, 1, dt) ELSE Advance(p, speed, dt)

MoveUnlessBlocked(p, speed, dt) ==
  IF CheckCollision(p, p.moveDirection) THEN p ELSE Advance(p, speed, dt)

\* The end of updateRun: the roll button is looked at after the move.
RollFromRun(p, in) == IF in.isRollPressed THEN SwitchState(p, "Roll") ELSE p

UpdateRun(p, dt, in) ==
  IF in.isAttackPressed THEN SwitchState(p, "Attack")
  ELSE IF in.moveVector.x = 0 /\ in.moveVector.y = 0 THEN SwitchState(p, "Idle")
  ELSE RollFromRun(
         MoveUnlessBlocked(
           RotateToDirection(CalculateMoveDirection(p, in.moveVector), dt),
           moveSpeed, dt),
         in)

\* The end of updateRoll: back to Idle once the timer has reached the duration.
EndRoll(p) == IF p.stateTimer >= rollDuration THEN SwitchState(p, "Idle") ELSE p

\* updateRoll moving at the run speed.
UpdateRollAtRunSpeed(p, dt) ==
  EndRoll(MoveUnlessBlocked([p EXCEPT !.stateTimer = @ + dt], moveSpeed, dt))

UpdateRoll(p, dt) ==
  EndRoll(MoveUnlessBlocked([p EXCEPT !.stateTimer = @ + dt], rollSpeed, dt))

(***************************************************************************)
(* Enemy (the Enemy class, src/core/SoundManager.ts lines 87-248).         *)
(***************************************************************************)
NewEnemy(position) ==
  [ mixer |-> FALSE, hp |-> enemyHp, isDead |-> FALSE, pos |-> position,
    facing |-> <<0, 1>>, fallen |-> FALSE ]

\* A die() that only sets the flag and leaves the mesh standing.
EnemyDieStanding(e) == [e EXCEPT !.isDead = TRUE]

EnemyDie(e) ==
  [e EXCEPT !.isDead = TRUE,
            !.fallen = TRUE,
            !.pos = <<e.pos[1], deathPoseY, e.pos[3]>>]

EnemyTakeDamage(e) ==
  IF e.isDead THEN e
  ELSE IF e.hp - 1 <= 0
    THEN EnemyDie([e EXCEPT !.hp = @ - 1])
    ELSE [e EXCEPT !.hp = @ - 1]

\* The neighbours that push enemy i away: alive, not i itself, nearer than
\* separationRange.
Neighbours(es, i) ==
  { j \in DOMAIN es :
      /\ j # i
      /\ ~es[j].isDead
      /\ Dist2(es[i].pos, es[j].pos) < separationRange * separationRange }

RECURSIVE SumOver(_, _)
\* The sum of f[j] over the finite set S of arguments.
SumOver(f, S) ==
  IF S = {} THEN 0
  ELSE LET j == CHOOSE k \in S : TRUE IN f[j] + SumOver(f, S \ {j})

\* The z component of separation * count * separationRange: every neighbour
\* adds normalize(pos - other.pos) * (separationRange - distance).  The
\* neighbours of a moving enemy stand on its line, so the distance is |dz|.
Separation(es, i) ==
  SumOver([j \in Neighbours(es, i) |->
             Sgn(es[i].pos[3] - es[j].pos[3])
               * (separationRange - Abs(es[i].pos[3] - es[j].pos[3]))],
          Neighbours(es, i))

\* The z sign of the heading: normalize(toPlayer) alone, or
\* normalize(normalize(toPlayer) + 1.5 * separation / count) with neighbours.
\* lookAt keeps only the horizontal part of it.
Heading(es, i, playerPos) ==
  IF Neighbours(es, i) = {} THEN Sgn(playerPos[3] - es[i].pos[3])
  ELSE SgnRootSum(playerPos[3] - es[i].pos[3],
                  Dist2(playerPos, es[i].pos)
                    - (playerPos[3] - es[i].pos[3]) * (playerPos[3] - es[i].pos[3]),
                  3 * Separation(es, i),
                  2 * Cardinality(Neighbours(es, i)) * separationRange)

\* Enemy.update for enemy i of the roster es.  A heading without a
\* horizontal part makes lookAt fall back to the identity rotation (+z).
\* dist <= detectionRange && dist > stopRange
InBand(d2) == d2 <= detectionRange * detectionRange /\ d2 > stopRange * stopRange

\* lookAt along the heading h, then translateZ(moveSpeed * dt).
Seek(e, h, dt) ==
  [e EXCEPT !.facing = <<0, IF h = 0 THEN 1 ELSE h>>,
            !.pos = << @[1], @[2], @[3] + (IF h = 0 THEN 1 ELSE h) * enemyMoveSpeed * dt >>]

\* Enemy.update without the isDead return.
EnemyUpdateUndead(es, i, dt, playerPos) ==
  IF ~es[i].mixer THEN es[i]
  ELSE IF InBand(Dist2(es[i].pos, playerPos))
    THEN Seek(es[i], Heading(es, i, playerPos), dt)
    ELSE es[i]

EnemyUpdate(es, i, dt, playerPos) ==
  IF ~es[i].mixer \/ es[i].isDead THEN es[i]
  ELSE IF InBand(Dist2(es[i].pos, playerPos))
    THEN Seek(es[i], Heading(es, i, playerPos), dt)
    ELSE es[i]

(***************************************************************************)
(* Combat resolution (Player.checkAttackHit, Player.updateAttack).         *)
(***************************************************************************)
\* (0, 0, -1).applyEuler(rotation): the direction the attack looks in.
PlayerForward(p) == << -Dir8(p.yaw)[1], -Dir8(p.yaw)[2] >>

\* acos(clamp(forward . normalize(toEnemy))) <= attackAngle / 2 = 45 degrees:
\* cos >= sqrt(1/2), with the lengths multiplied out.  A zero toEnemy
\* normalises to zero, so the angle is 90 degrees.
ConeTest(f, v) ==
  /\ f[1] * v[1] + f[2] * v[2] > 0
  /\ 2 * (f[1] * v[1] + f[2] * v[2]) * (f[1] * v[1] + f[2] * v[2])
       >= (f[1] * f[1] + f[2] * f[2]) * (v[1] * v[1] + v[2] * v[2])

\* The cone test with the whole attackAngle on either side of forward.
WithinWholeAngle(p, e) ==
  PlayerForward(p)[1] * (e.pos[1] - p.pos[1])
    + PlayerForward(p)[2] * (e.pos[3] - p.pos[3]) >= 0

\* forward . normalize(enemy - player): a live enemy and the attacking player
\* both stand at y = 0, so the vector is horizontal.
WithinCone(p, e) ==
  ConeTest(PlayerForward(p), <<e.pos[1] - p.pos[1], e.pos[3] - p.pos[3]>>)

\* A pass with a single target: the first enemy of the roster that is alive,
\* in range and in the cone.
HitSetFirst(p, es) ==
  { i \in DOMAIN es :
      /\ ~es[i].isDead
      /\ Dist2(p.pos, es[i].pos) <= attackRange * attackRange
      /\ WithinCone(p, es[i])
      /\ \A j \in 1..(i - 1) :
            \/ es[j].isDead
            \/ Dist2(p.pos, es[j].pos) > attackRange * attackRange
            \/ ~WithinCone(p, es[j]) }

\* The enemies one pass of checkAttackHit damages.
HitSet(p, es) ==
  { i \in DOMAIN es :
      /\ ~es[i].isDead
      /\ Dist2(p.pos, es[i].pos) <= attackRange * attackRange
      /\ WithinCone(p, es[i]) }

\* checkAttackHit: the roster after the pass; one hit effect per hit enemy.
CheckAttackHit(p, es) ==
  [i \in DOMAIN es |-> IF i \in HitSet(p, es) THEN EnemyTakeDamage(es[i]) ELSE es[i]]

\* updateAttack, as [player, enemies, effects]: effects counts the hit
\* effects the pass spawned.
\* !hasHitAttacked && stateTimer > 0.1 && stateTimer < 0.3
HitWindowUnguarded(p) == p.stateTimer > hitWindowOpen /\ p.stateTimer < hitWindowClose

HitWindow(p) ==
  ~p.hasHitAttacked /\ p.stateTimer > hitWindowOpen /\ p.stateTimer < hitWindowClose

\* The end of updateAttack: back to Idle once the timer has reached the duration.
EndAttack(p) == IF p.stateTimer >= attackDuration THEN SwitchState(p, "Idle") ELSE p

\* updateAttack for a player whose timer has been advanced.
ResolveAttack(p, es) ==
  IF HitWindow(p)
    THEN [ player |-> EndAttack([p EXCEPT !.hasHitAttacked = TRUE, !.hitPasses = @ + 1]),
           enemies |-> CheckAttackHit(p, es),
           effects |-> Cardinality(HitSet(p, es)) ]
    ELSE [ player |-> EndAttack(p), enemies |-> es, effects |-> 0 ]

UpdateAttack(p, dt, es) == ResolveAttack([p EXCEPT !.stateTimer = @ + dt], es)

\* A player method that leaves the enemies alone.
Alone(p, es) == [player |-> p, enemies |-> es, effects |-> 0]

\* A switch in which the attack button cuts a roll short.
StateStepAttackCancelsRoll(p, dt, in, es) ==
  CASE p.state = "Idle" -> Alone(UpdateIdle(p, in), es)
    [] p.state = "Run" -> Alone(UpdateRun(p, dt, in), es)
    [] p.state = "Roll" -> Alone(IF in.isAttackPressed
                                   THEN SwitchState(p, "Attack")
                                   ELSE UpdateRoll(p, dt), es)
    [] p.state = "Attack" -> UpdateAttack(p, dt, es)
    [] OTHER -> Alone(p, es)

\* switch (this.state)
StateStep(p, dt, in, es) ==
  CASE p.state = "Idle" -> Alone(UpdateIdle(p, in), es)
    [] p.state = "Run" -> Alone(UpdateRun(p, dt, in), es)
    [] p.state = "Roll" -> Alone(UpdateRoll(p, dt), es)
    [] p.state = "Attack" -> UpdateAttack(p, dt, es)
    [] OTHER -> Alone(p, es)

\* update() was handed dt ticks.
Called(p, dt) == [p EXCEPT !.sinceHit = Min(invincibleDuration, @ + dt)]

\* An update whose invincibility countdown does not wait for the model.
PlayerUpdateUnloaded(p, dt, in, es) ==
  IF ~p.mixer THEN Alone(UpdateInvincible(Called(p, dt), dt), es)
  ELSE StateStep(UpdateInvincible(Called(p, dt), dt), dt, in, es)

\* Player.update, as [player, enemies, effects].
PlayerUpdate(p, dt, in, es) ==
  IF ~p.mixer THEN Alone(Called(p, dt), es)
  ELSE StateStep(UpdateInvincible(Called(p, dt), dt), dt, in, es)

(***************************************************************************)
(* EffectManager (src/unnamed/part_000).  The active particles, as the     *)
(* sequence of their remaining lives in ticks.                             *)
(***************************************************************************)
\* life = 0.5 + Math.random() * 0.3 seconds, that is 10 to 16 ticks; a life
\* between two ticks ends at the later one.
ParticleLives == {10, 13, 16}

\* The lives one spawnHitEffect may draw: all alike, or mixed.
Bursts ==
  { [k \in 1..particleCount |-> life] : life \in ParticleLives }
    \cup { [k \in 1..particleCount |-> 10 + (k % 7)] }

RECURSIVE SpawnHitEffects(_, _, _)
\* count calls of spawnHitEffect, each pushing the lives of burst.
SpawnHitEffects(ps, count, burst) ==
  IF count = 0 THEN ps ELSE SpawnHitEffects(ps \o burst, count - 1, burst)

Decrement(seq, dt) == [k \in DOMAIN seq |-> seq[k] - dt]

\* A particle that is kept when its life is exactly 0.
AliveAtZero(life) == life >= 0

Alive(life) == life > 0

\* EffectManager.update: every life runs down; the particles at or below
\* zero are spliced out.
EffectUpdate(ps, dt) == SelectSeq(Decrement(ps, dt), Alive)

(***************************************************************************)
(* InputManager (src/core/InputManager.ts).  moveVector is x / sqrt(d),    *)
(* y / sqrt(d): d is 2 for a normalised diagonal and 1 otherwise.          *)
(***************************************************************************)
NewInput ==
  [ moveVector |-> [x |-> 0, y |-> 0, d |-> 1],
    lookDelta |-> [x |-> 0, y |-> 0],
    isRollPressed |-> FALSE, isAttackPressed |-> FALSE, keys |-> {},
    isRightMouseDown |-> FALSE ]

Held(in, a, b) == a \in in.keys \/ b \in in.keys

\* Two opposite keys as -1, 0 or 1.
Axis(in, minus, minusArrow, plus, plusArrow) ==
  (IF Held(in, plus, plusArrow) THEN 1 ELSE 0)
    - (IF Held(in, minus, minusArrow) THEN 1 ELSE 0)

\* moveVector.set(x, y).normalize()
Normalized(x, y) ==
  [x |-> x, y |-> y, d |-> IF x # 0 \/ y # 0 THEN x * x + y * y ELSE 1]

HasKeyInput(in) ==
  in.keys \cap {"w", "arrowup", "s", "arrowdown", "a", "arrowleft", "d", "arrowright"} # {}

\* if (keys[' ']) isRollPressed = true
SampleRollKey(in) == IF " " \in in.keys THEN [in EXCEPT !.isRollPressed = TRUE] ELSE in

\* InputManager.update
InputUpdate(in) ==
  SampleRollKey(
    IF HasKeyInput(in)
      THEN [in EXCEPT !.moveVector =
              Normalized(Axis(in, "a", "arrowleft", "d", "arrowright"),
                         Axis(in, "w", "arrowup", "s", "arrowdown"))]
      ELSE in)

\* A reset that also clears the attack flag.
InputResetClearsAttack(in) ==
  [in EXCEPT !.lookDelta = [x |-> 0, y |-> 0], !.isAttackPressed = FALSE]

\* A reset that clears the horizontal look only.
InputResetHalf(in) == [in EXCEPT !.lookDelta.x = 0]

\* InputManager.reset
InputReset(in) == [in EXCEPT !.lookDelta = [x |-> 0, y |-> 0]]

(***************************************************************************)
(* CameraController.update: theta in steps of rotateSpeed (0.005 rad per   *)
(* pixel of lookDelta).  The vertical angle and the camera position only   *)
(* reach the renderer.                                                     *)
(***************************************************************************)
CameraUpdate(cam, in) == [cam EXCEPT !.theta = @ - in.lookDelta.x]

(***************************************************************************)
(* Game.update (src/core/Game.ts).  A world is the record of the objects   *)
(* the frame works on; calls counts the takeDamage calls of the frame.     *)
(***************************************************************************)
NewGame == [isGameOver |-> FALSE, score |-> 0, hpBar |-> "unset"]

\* A contact check that spares a player in the middle of an attack.
ContactSparesAttack(w, i) ==
  IF ~w.enemies[i].isDead
       /\ w.player.state # "Attack"
       /\ Dist2(w.player.pos, w.enemies[i].pos) < contactRange * contactRange
    THEN [w EXCEPT !.player = TakeDamage(@, 1), !.calls = @ + 1]
    ELSE w

\* The body of this.enemies.forEach for enemy i: its update, then the
\* contact check against the player's position.
\* if (!enemy.isDead && dist < 1.5) player.takeDamage(1)
Contact(w, i) ==
  IF ~w.enemies[i].isDead
       /\ Dist2(w.player.pos, w.enemies[i].pos) < contactRange * contactRange
    THEN [w EXCEPT !.player = TakeDamage(@, 1), !.calls = @ + 1]
    ELSE w

EnemyStep(w, i, dt) ==
  Contact([w EXCEPT !.enemies[i] = EnemyUpdate(w.enemies, i, dt, w.player.pos)], i)

\* enemy.update for enemy i alone.
EnemyMove(w, i, dt) ==
  [w EXCEPT !.enemies[i] = EnemyUpdate(w.enemies, i, dt, w.player.pos)]

\* The loop in two phases: every enemy's update, then every contact check.
EnemyLoopPhased(w, dt) ==
  Contact(Contact(Contact(
    EnemyMove(EnemyMove(EnemyMove(w, 1, dt), 2, dt), 3, dt), 1), 2), 3)

\* this.enemies.forEach over the three enemies of the roster.
EnemyLoop(w, dt) == EnemyStep(EnemyStep(EnemyStep(w, 1, dt), 2, dt), 3, dt)

\* The colours with exactly 50% still green and exactly 20% still yellow.
HpBarColorInclusive(hp) ==
  IF hp * 100 >= 50 * maxHp THEN "green"
  ELSE IF hp * 100 >= 20 * maxHp THEN "yellow"
  ELSE "red"

\* The colour of the HP bar for hpPercent = hp / maxHp * 100.
HpBarColor(hp) ==
  IF hp * 100 > 50 * maxHp THEN "green"
  ELSE IF hp * 100 > 20 * maxHp THEN "yellow"
  ELSE "red"

DeadCount(es) == Cardinality({i \in DOMAIN es : es[i].isDead})

\* Game.update(delta); burst is what Math.random gives the hit effects of
\* this frame.
\* The UI lines without the game-over check.
HudWithoutGameOver(p, es) ==
  [ isGameOver |-> FALSE,
    score |-> DeadCount(es) * scorePerKill,
    hpBar |-> HpBarColor(p.hp) ]

\* The UI lines and the game-over check at the end of the frame.
Hud(p, es) ==
  [ isGameOver |-> p.hp <= 0,
    score |-> DeadCount(es) * scorePerKill,
    hpBar |-> HpBarColor(p.hp) ]

\* The rest of the frame with the score counted before the player has acted.
AfterPlayerStaleScore(w, acted, burst) ==
  [ player |-> acted.player,
    enemies |-> acted.enemies,
    input |-> InputReset(w.input),
    camera |-> CameraUpdate(w.camera, w.input),
    particles |-> SpawnHitEffects(w.particles, acted.effects, burst),
    game |-> Hud(acted.player, w.enemies),
    calls |-> w.calls ]

\* The rest of the frame once the player has acted: the camera, the UI, the
\* game-over check and the input reset.
AfterPlayer(w, acted, burst) ==
  [ player |-> acted.player,
    enemies |-> acted.enemies,
    input |-> InputReset(w.input),
    camera |-> CameraUpdate(w.camera, w.input),
    particles |-> SpawnHitEffects(w.particles, acted.effects, burst),
    game |-> Hud(acted.player, acted.enemies),
    calls |-> w.calls ]

\* effectManager.update, then player.update.
AfterEnemies(w, dt, burst) ==
  AfterPlayer([w EXCEPT !.particles = EffectUpdate(@, dt)],
              PlayerUpdate(w.player, dt, w.input, w.enemies),
              burst)

\* Game.update without the isGameOver return at its top.
GameUpdateNoHalt(w, dt, burst) ==
  AfterEnemies(
    EnemyLoop([w EXCEPT !.input = InputUpdate(@), !.calls = 0], dt),
    dt, burst)

GameUpdate(w, dt, burst) ==
  IF w.game.isGameOver THEN [w EXCEPT !.calls = 0]
  ELSE AfterEnemies(
         EnemyLoop([w EXCEPT !.input = InputUpdate(@), !.calls = 0], dt),
         dt, burst)

World ==
  [ player |-> player, enemies |-> enemies, input |-> input, camera |-> camera,
    particles |-> particles, game |-> game, calls |-> obs.calls ]

(***************************************************************************)
(* Actions.                                                                *)
(***************************************************************************)
NoRoll == [rollStart |-> 0, rollBlocked |-> FALSE, rollTicks |-> 0, rolled |-> FALSE]

\* History of the buttons: the sources that hold the attack button down
\* ("mouse" on the window, "touch" or "button" for a finger or the mouse on
\* the on-screen button) and those that hold the on-screen roll button.
\* stick is the vector the virtual stick wrote last, (0, 0) if it never did.
NoHold ==
  [attackHeld |-> {}, rollHeld |-> {}, stick |-> [x |-> 0, y |-> 0, d |-> 1]]

\* History of the roll the player is in, or has ended in this frame: the z
\* it began at, whether checkCollision blocked a frame of it, the ticks
\* updateRoll was handed, and whether this frame ended it.
RollTrace(before, after, dt) ==
  IF before.state = "Roll"
    THEN [rollStart |-> obs.rollStart,
          rollBlocked |-> obs.rollBlocked \/ CheckCollision(before, before.moveDirection),
          rollTicks |-> obs.rollTicks + dt,
          rolled |-> after.state # "Roll"]
  ELSE IF after.state = "Roll"
    THEN [NoRoll EXCEPT !.rollStart = after.pos[3]]
    ELSE NoRoll

\* One call of Game.animate: the frame callback with its measured delta.
\* The objects after the frame become the state.
Commit(w, dt) ==
  /\ player' = w.player
  /\ enemies' = w.enemies
  /\ input' = w.input
  /\ camera' = w.camera
  /\ particles' = w.particles
  /\ game' = w.game
  /\ obs' = [calls |-> w.calls] @@ RollTrace(player, w.player, dt)
              @@ [attackHeld |-> obs.attackHeld, rollHeld |-> obs.rollHeld,
                  stick |-> obs.stick]

Frame(dt, burst) == Commit(GameUpdate(World, dt, burst), dt)

\* The GLTF loader delivers the player's model.
PlayerLoaded ==
  /\ ~player.mixer
  /\ player' = LoadModel(player)
  /\ UNCHANGED <<enemies, input, camera, particles, game, obs>>

\* The GLTF loader delivers the model of enemy i.
EnemyLoaded(i) ==
  /\ ~enemies[i].mixer
  /\ enemies[i].pos[1] = player.pos[1]
  /\ enemies' = [enemies EXCEPT ![i].mixer = TRUE]
  /\ UNCHANGED <<player, input, camera, particles, game, obs>>

\* The virtual stick reports the vector v (nipplejs 'move').
StickMove(v) ==
  /\ input' = [input EXCEPT !.moveVector = [x |-> v[1], y |-> -v[2], d |-> 1]]
  /\ obs' = [obs EXCEPT !.stick = [x |-> v[1], y |-> -v[2], d |-> 1]]
  /\ UNCHANGED <<player, enemies, camera, particles, game>>

\* The virtual stick is let go (nipplejs 'end').
StickEnd ==
  /\ input' = [input EXCEPT !.moveVector = [x |-> 0, y |-> 0, d |-> 1]]
  /\ obs' = [obs EXCEPT !.stick = [x |-> 0, y |-> 0, d |-> 1]]
  /\ UNCHANGED <<player, enemies, camera, particles, game>>

\* The holders of a button after source is pressed or let go.
Hold(held, source, isPressed) ==
  IF isPressed THEN held \cup {source} ELSE held \ {source}

\* handlePress(type, isPressed)
Press(in, type, isPressed) ==
  IF type = "attack"
    THEN [in EXCEPT !.isAttackPressed = isPressed]
    ELSE [in EXCEPT !.isRollPressed = isPressed]

Pressed(o, type, source, isPressed) ==
  IF type = "attack"
    THEN [o EXCEPT !.attackHeld = Hold(@, source, isPressed)]
    ELSE [o EXCEPT !.rollHeld = Hold(@, source, isPressed)]

\* touchstart / touchend on an on-screen button: handlePress.  A finger is
\* lifted only after it was put down.
HandlePress(type, isPressed) ==
  /\ isPressed \/ "touch" \in (IF type = "attack" THEN obs.attackHeld ELSE obs.rollHeld)
  /\ input' = Press(input, type, isPressed)
  /\ obs' = Pressed(obs, type, "touch", isPressed)
  /\ UNCHANGED <<player, enemies, camera, particles, game>>

\* Whether the one mouse holds its left button down, anywhere.
MouseIsDown ==
  "mouse" \in obs.attackHeld \/ "button" \in obs.attackHeld \/ "button" \in obs.rollHeld

\* mousedown on an on-screen button: handlePress; the window's onMouseDown
\* returns at once for a BUTTON target.
ButtonMouseDown(type) ==
  /\ ~MouseIsDown
  /\ input' = Press(input, type, TRUE)
  /\ obs' = Pressed(obs, type, "button", TRUE)
  /\ UNCHANGED <<player, enemies, camera, particles, game>>

\* mouseup on an on-screen button: handlePress, then the window's onMouseUp
\* for button 0.
ButtonMouseUp(type) ==
  /\ "button" \in (IF type = "attack" THEN obs.attackHeld ELSE obs.rollHeld)
  /\ input' = [Press(input, type, FALSE) EXCEPT !.isAttackPressed = FALSE]
  /\ obs' = Pressed(obs, type, "button", FALSE)
  /\ UNCHANGED <<player, enemies, camera, particles, game>>

\* onMouseDown away from the on-screen buttons.
MouseDown(button) ==
  /\ button = 0 => ~MouseIsDown
  /\ input' = IF button = 0 THEN [input EXCEPT !.isAttackPressed = TRUE]
              ELSE [input EXCEPT !.isRightMouseDown = TRUE]
  /\ obs' = IF button = 0 THEN Pressed(obs, "attack", "mouse", TRUE) ELSE obs
  /\ UNCHANGED <<player, enemies, camera, particles, game>>

\* onMouseUp away from the on-screen buttons.
MouseUp(button) ==
  /\ button = 0 => "mouse" \in obs.attackHeld
  /\ input' = IF button = 0 THEN [input EXCEPT !.isAttackPressed = FALSE]
              ELSE [input EXCEPT !.isRightMouseDown = FALSE]
  /\ obs' = IF button = 0 THEN Pressed(obs, "attack", "mouse", FALSE) ELSE obs
  /\ UNCHANGED <<player, enemies, camera, particles, game>>

\* onMouseMove by movementX = dx, movementY = dy pixels.
MouseMove(dx, dy) ==
  /\ input.isRightMouseDown
  /\ Abs(input.lookDelta.x + dx) <= MaxLook
  /\ Abs(input.lookDelta.y + dy) <= MaxLook
  /\ input' = [input EXCEPT !.lookDelta = [x |-> @.x + dx, y |-> @.y + dy]]
  /\ UNCHANGED <<player, enemies, camera, particles, game, obs>>

\* onKeyDown
KeyDown(key) ==
  /\ input' = [input EXCEPT !.keys = @ \cup {key}]
  /\ UNCHANGED <<player, enemies, camera, particles, game, obs>>

\* onKeyUp
KeyUp(key) ==
  /\ input' = [input EXCEPT !.keys = @ \ {key}]
  /\ UNCHANGED <<player, enemies, camera, particles, game, obs>>

(***************************************************************************)
(* The game as constructed: the player at the origin, the three enemies of *)
(* the Game constructor, nothing loaded yet.                               *)
(***************************************************************************)
Roster ==
  << NewEnemy(<<0, 0, 200>>), NewEnemy(<<-200, 0, 320>>), NewEnemy(<<200, 0, 320>>) >>

Init ==
  /\ player = NewPlayer
  /\ enemies = Roster
  /\ input = NewInput
  /\ camera = [theta |-> 0]
  /\ particles = << >>
  /\ game = NewGame
  /\ obs = [calls |-> 0] @@ NoRoll @@ NoHold

\* What Math.random may give the hit effects of the next frame: it is only
\* asked during an attack.
Draws == IF player.state = "Attack" THEN Bursts ELSE {<< >>}

\* Frame deltas that are whole tenths of a second: with them every turn of
\* rotateToDirection is a whole number of eighths.
TurnDeltas == {dt \in 1..MaxDt : dt % rotatePeriod = 0}

InStrip(p) == p.pos[3] >= -MaxBehind /\ p.pos[3] <= MaxAhead

\* Any frame, any load, any event of the touch controls.
Next ==
  \/ \E dt \in TurnDeltas, burst \in Draws : Frame(dt, burst)
  \/ PlayerLoaded
  \/ \E i \in DOMAIN enemies : EnemyLoaded(i)
  \/ \E v \in {<<0, 1>>, <<0, -1>>} : StickMove(v)
  \/ StickEnd
  \/ \E type \in {"attack", "roll"}, isPressed \in BOOLEAN : HandlePress(type, isPressed)

Spec == Init /\ [][Next]_vars

(***************************************************************************)
(* SpecWall: the player has run up to the central block and stands in      *)
(* contact with enemy 1, whose model never loads; only the buttons are     *)
(* used from here on.  Every frame delta of 1..MaxDt ticks is taken.       *)
(***************************************************************************)
\* Reached from Init by three Run frames of 0.2 s along +z (8 * 0.2 = 1.6
\* units each, and a turn of 2 * diff, which is a full turn).
AtTheWall ==
  [LoadModel(NewPlayer) EXCEPT !.pos = <<0, 0, 192>>, !.moveDirection = <<0, 1>>]

InitWall ==
  /\ player = AtTheWall
  /\ enemies = Roster
  /\ input = NewInput
  /\ camera = [theta |-> 0]
  /\ particles = << >>
  /\ game = [NewGame EXCEPT !.hpBar = "green"]
  /\ obs = [calls |-> 0] @@ NoRoll @@ NoHold

NextWall ==
  \/ \E dt \in 1..MaxDt, burst \in Draws : Frame(dt, burst)
  \/ \E type \in {"attack", "roll"}, isPressed \in BOOLEAN : HandlePress(type, isPressed)

SpecWall == InitWall /\ [][NextWall]_vars

(***************************************************************************)
(* SpecSiege: the game as constructed; the player never leaves the origin  *)
(* (no stick, no roll), the models load at any time and enemy 1 walks up   *)
(* to the player.  Every frame delta of 1..MaxDt ticks is taken.           *)
(***************************************************************************)
NextSiege ==
  \/ \E dt \in 1..MaxDt, burst \in Draws : Frame(dt, burst)
  \/ PlayerLoaded
  \/ \E i \in DOMAIN enemies : EnemyLoaded(i)
  \/ \E isPressed \in BOOLEAN : HandlePress("attack", isPressed)

SpecSiege == Init /\ [][NextSiege]_vars

(***************************************************************************)
(* SpecRun: the game as constructed, with the stick and both buttons; the  *)
(* player is followed on the strip -MaxBehind..MaxAhead of the z axis,     *)
(* which no enemy touches and no attack reaches an enemy from.             *)
(***************************************************************************)
NextRun ==
  \/ \E dt \in TurnDeltas, burst \in Draws : Frame(dt, burst) /\ InStrip(player')
  \/ PlayerLoaded
  \/ \E v \in {<<0, 1>>, <<0, -1>>} : StickMove(v)
  \/ StickEnd
  \/ \E type \in {"attack", "roll"}, isPressed \in BOOLEAN : HandlePress(type, isPressed)

SpecRun == Init /\ [][NextRun]_vars

(***************************************************************************)
(* SpecCone: the loaded player stands at the origin with any of the eight  *)
(* yaws and attacks; enemy 1 stands, alive or dead, on any spot of a grid  *)
(* around the player and its model never loads.  Spots on the very edge of *)
(* the cone or of the range, where the last bit of acos or sqrt decides,   *)
(* are left out.                                                           *)
(***************************************************************************)
Coords == {-164, -120, -64, 0, 64, 120, 160}

\* The grid, and a spot at distance 3.0 and bearing 100 degrees for yaw 0.
Spots == ((Coords \X Coords) \ {<<0, 0>>}) \cup {<<118, 21>>}

\* The offset v is exactly 45 degrees off f, or exactly attackRange away in a
\* direction that is not an axis.
OnEdge(f, v) ==
  \/ /\ f[1] * v[1] + f[2] * v[2] > 0
     /\ 2 * (f[1] * v[1] + f[2] * v[2]) * (f[1] * v[1] + f[2] * v[2])
          = (f[1] * f[1] + f[2] * f[2]) * (v[1] * v[1] + v[2] * v[2])
  \/ /\ v[1] # 0 /\ v[2] # 0
     /\ v[1] * v[1] + v[2] * v[2] = attackRange * attackRange

\* An enemy on the spot, as constructed or after one takeDamage().
EnemyAt(spot, dead) ==
  IF dead THEN EnemyTakeDamage(NewEnemy(<<spot[1], 0, spot[2]>>))
  ELSE NewEnemy(<<spot[1], 0, spot[2]>>)

InitCone ==
  \E yaw \in 0..7, spot \in Spots, dead \in BOOLEAN :
    /\ ~OnEdge(<< -Dir8(yaw)[1], -Dir8(yaw)[2] >>, spot)
    /\ player = [LoadModel(NewPlayer) EXCEPT !.yaw = yaw]
    /\ enemies = [Roster EXCEPT ![1] = EnemyAt(spot, dead)]
    /\ input = NewInput
    /\ camera = [theta |-> 0]
    /\ particles = << >>
    /\ game = IF dead THEN Hud(player, enemies) ELSE NewGame
    /\ obs = [calls |-> 0] @@ NoRoll @@ NoHold

NextCone ==
  \/ \E dt \in 1..MaxDt, burst \in Draws : Frame(dt, burst)
  \/ \E isPressed \in BOOLEAN : HandlePress("attack", isPressed)

SpecCone == InitCone /\ [][NextCone]_vars

(***************************************************************************)
(* SpecFlock: the loaded player stands at the origin facing +z and only    *)
(* uses the attack button; enemies 1 and 2 are loaded and stand in front   *)
(* of the player on the player's line, enemy 3 is off the line and never   *)
(* loads.  Frames take 0.1 s or 0.15 s, which keeps a walking enemy out of  *)
(* contact range, and Math.random gives every particle the shortest life.  *)
(***************************************************************************)
\* The z of enemies 1 and 2 at the start: enemy 1 within attack range, or
\* within contact range, and enemy 2 well behind it.
Lines == { <<150, 300>>, <<50, 230>> }

FlockDeltas == 2..3

\* spawnHitEffect with Math.random() = 0 for every life.
ShortestBurst == [k \in 1..particleCount |-> 10]

LoadedEnemy(z) == [NewEnemy(<<0, 0, z>>) EXCEPT !.mixer = TRUE]

InitFlock ==
  \E line \in Lines :
    /\ player = [LoadModel(NewPlayer) EXCEPT !.yaw = 4]
    /\ enemies = << LoadedEnemy(line[1]), LoadedEnemy(line[2]), Roster[3] >>
    /\ input = NewInput
    /\ camera = [theta |-> 0]
    /\ particles = << >>
    /\ game = NewGame
    /\ obs = [calls |-> 0] @@ NoRoll @@ NoHold

NextFlock ==
  \/ \E dt \in FlockDeltas : Frame(dt, ShortestBurst)
  \/ \E isPressed \in BOOLEAN : HandlePress("attack", isPressed)

SpecFlock == InitFlock /\ [][NextFlock]_vars

(***************************************************************************)
(* SpecOrder: as SpecFlock, with enemy 1 within contact range of the       *)
(* player and enemy 2 behind it, at stopRange from the player.             *)
(***************************************************************************)
InitOrder ==
  /\ player = [LoadModel(NewPlayer) EXCEPT !.yaw = 4]
  /\ enemies = << LoadedEnemy(50), LoadedEnemy(stopRange), Roster[3] >>
  /\ input = NewInput
  /\ camera = [theta |-> 0]
  /\ particles = << >>
  /\ game = NewGame
  /\ obs = [calls |-> 0] @@ NoRoll @@ NoHold

SpecOrder == InitOrder /\ [][NextFlock]_vars

(***************************************************************************)
(* SpecPincer: as SpecFlock, with enemy 1 in front of the player and enemy *)
(* 2 behind it, both within contact range.                                 *)
(***************************************************************************)
InitPincer ==
  /\ player = [LoadModel(NewPlayer) EXCEPT !.yaw = 4]
  /\ enemies = << LoadedEnemy(50), LoadedEnemy(-50), Roster[3] >>
  /\ input = NewInput
  /\ camera = [theta |-> 0]
  /\ particles = << >>
  /\ game = NewGame
  /\ obs = [calls |-> 0] @@ NoRoll @@ NoHold

SpecPincer == InitPincer /\ [][NextFlock]_vars

(***************************************************************************)
(* SpecAmbush: as SpecFlock, with enemy 1 behind the player, within        *)
(* contact range and outside the attack cone, and enemy 2 in front within  *)
(* attack range.  requestAnimationFrame keeps calling animate, so a frame  *)
(* of the running game that can change the state is eventually taken.      *)
(***************************************************************************)
\* A frame of the running game, statement by statement: the input update,
\* the loop's turn for each enemy, then the rest of Game.update.
FrameStaged(dt) ==
  \E w0 \in {[World EXCEPT !.input = InputUpdate(@), !.calls = 0]} :
    \E w1 \in {EnemyStep(w0, 1, dt)} :
      \E w2 \in {EnemyStep(w1, 2, dt)} :
        \E w3 \in {EnemyStep(w2, 3, dt)} :
          \E w \in {AfterEnemies(w3, dt, ShortestBurst)} :
            ~game.isGameOver /\ Commit(w, dt)

InitAmbush ==
  /\ player = [LoadModel(NewPlayer) EXCEPT !.yaw = 4]
  /\ enemies = << LoadedEnemy(-50), LoadedEnemy(150), Roster[3] >>
  /\ input = NewInput
  /\ camera = [theta |-> 0]
  /\ particles = << >>
  /\ game = NewGame
  /\ obs = [calls |-> 0] @@ NoRoll @@ NoHold

SpecAmbush ==
  /\ InitAmbush
  /\ [][NextFlock]_vars
  /\ WF_vars(\E dt \in FlockDeltas : FrameStaged(dt))

(***************************************************************************)
(* SpecHerd: the loaded player stands at the origin and may walk along +z  *)
(* up to the central block; enemies 1 and 2 stand 1.0 apart on the         *)
(* player's line, 19 and 20 away, beyond detectionRange, and their models  *)
(* load at any time; enemy 3 is off the line and never loads.              *)
(***************************************************************************)
HerdDeltas == {2, 4}

InitHerd ==
  /\ player = LoadModel(NewPlayer)
  /\ enemies = << NewEnemy(<<0, 0, 760>>), NewEnemy(<<0, 0, 800>>), Roster[3] >>
  /\ input = NewInput
  /\ camera = [theta |-> 0]
  /\ particles = << >>
  /\ game = NewGame
  /\ obs = [calls |-> 0] @@ NoRoll @@ NoHold

NextHerd ==
  \/ \E dt \in HerdDeltas : Frame(dt, ShortestBurst)
  \/ \E i \in {1, 2} : EnemyLoaded(i)
  \/ StickMove(<<0, -1>>)
  \/ StickEnd

SpecHerd == InitHerd /\ [][NextHerd]_vars

(***************************************************************************)
(* SpecLook: the player stands at the central block in contact with enemy  *)
(* 1, as in SpecWall, and only looks around: the right mouse button and    *)
(* mouse moves, followed while the camera angle is within MaxTheta.        *)
(***************************************************************************)
\* movementX, movementY of a mouse move.
Moves == { <<1, 1>>, <<-1, -1>> }

NextLook ==
  \/ \E dt \in 1..MaxDt : Frame(dt, ShortestBurst) /\ Abs(camera'.theta) <= MaxTheta
  \/ \E m \in Moves : MouseMove(m[1], m[2])
  \/ MouseDown(2)
  \/ MouseUp(2)

SpecLook == InitWall /\ [][NextLook]_vars

(***************************************************************************)
(* The keyboard and tap variant of InputManager (src/unnamed/part_001),    *)
(* in the place of the InputManager of src/core.                           *)
(***************************************************************************)
\* update(): moveVector is always taken from the keys, isRollPressed is the
\* space key.
TapUpdate(in) ==
  [in EXCEPT !.moveVector = Normalized(Axis(in, "a", "arrowleft", "d", "arrowright"),
                                       Axis(in, "w", "arrowup", "s", "arrowdown")),
             !.isRollPressed = " " \in in.keys]

\* A reset() that leaves the attack flag alone.
TapResetKeeps(in) == [in EXCEPT !.lookDelta = [x |-> 0, y |-> 0]]

\* reset(): lookDelta and the attack flag.
TapReset(in) ==
  [in EXCEPT !.lookDelta = [x |-> 0, y |-> 0], !.isAttackPressed = FALSE]

\* Game.update with the variant as its inputManager.  After the variant's
\* update() the update() of src/core changes nothing, and the variant's
\* reset() includes the reset() of src/core.
TapGameUpdate(w, dt, burst) ==
  IF w.game.isGameOver THEN [w EXCEPT !.calls = 0]
  ELSE [GameUpdate([w EXCEPT !.input = TapUpdate(@)], dt, burst)
          EXCEPT !.input = TapReset(@)]

TapFrame(dt) == Commit(TapGameUpdate(World, dt, ShortestBurst), dt)

\* onTouchStart on the right half of the screen: a tap is an attack.
TapTouchStart ==
  /\ "touch" \notin obs.attackHeld
  /\ input' = [input EXCEPT !.isAttackPressed = TRUE]
  /\ obs' = Pressed(obs, "attack", "touch", TRUE)
  /\ UNCHANGED <<player, enemies, camera, particles, game>>

\* onTouchEnd
TapTouchEnd ==
  /\ "touch" \in obs.attackHeld
  /\ input' = [input EXCEPT !.isAttackPressed = FALSE]
  /\ obs' = Pressed(obs, "attack", "touch", FALSE)
  /\ UNCHANGED <<player, enemies, camera, particles, game>>

(***************************************************************************)
(* SpecTap: the player stands at the central block in contact with enemy   *)
(* 1, as in SpecWall; the game runs with the variant InputManager, the     *)
(* left mouse button, taps and the space key.                              *)
(***************************************************************************)
TapDeltas == {2, 5}

NextTap ==
  \/ \E dt \in TapDeltas : TapFrame(dt)
  \/ MouseDown(0)
  \/ MouseUp(0)
  \/ TapTouchStart
  \/ TapTouchEnd
  \/ KeyDown(" ")
  \/ KeyUp(" ")

SpecTap == InitWall /\ [][NextTap]_vars

(***************************************************************************)
(* SpecKeys: the player stands at the central block in contact with enemy  *)
(* 1, as in SpecWall, and every source of the two buttons is used: the     *)
(* space key, the left mouse button on the window, a finger and the mouse  *)
(* on the on-screen buttons.  Frames take 0.25 s.                          *)
(***************************************************************************)
KeyDeltas == {5}

NextKeys ==
  \/ \E dt \in KeyDeltas : Frame(dt, ShortestBurst)
  \/ KeyDown(" ")
  \/ KeyUp(" ")
  \/ \E type \in {"attack", "roll"}, isPressed \in BOOLEAN : HandlePress(type, isPressed)
  \/ \E type \in {"attack", "roll"} : ButtonMouseDown(type)
  \/ \E type \in {"attack", "roll"} : ButtonMouseUp(type)
  \/ MouseDown(0)
  \/ MouseUp(0)

SpecKeys == InitWall /\ [][NextKeys]_vars

(***************************************************************************)
(* SpecWasd: the game as constructed, steered along the z axis with the W  *)
(* and S keys and with the virtual stick; the player is followed on the    *)
(* strip of SpecRun.                                                       *)
(***************************************************************************)
NextWasd ==
  \/ \E dt \in TurnDeltas : Frame(dt, ShortestBurst) /\ InStrip(player')
  \/ PlayerLoaded
  \/ \E key \in {"w", "s"} : KeyDown(key)
  \/ \E key \in {"w", "s"} : KeyUp(key)
  \/ \E v \in {<<0, 1>>, <<0, -1>>} : StickMove(v)
  \/ StickEnd

SpecWasd == Init /\ [][NextWasd]_vars

(***************************************************************************)
(* Health and damage.                                                      *)
(***************************************************************************)
\* C1: in every reachable state 0 <= player.hp <= maxHp, and no step of the
\* game (frame, input event, model load) raises player.hp.
C1_HpBoundedAndFalling ==
  [](player.hp \in 0..maxHp) /\ [][player'.hp <= player.hp]_vars

\* The player has been hit down to hp 0 after its model loaded.
C1_Witness == player.mixer /\ player.hp = 0 /\ player.deaths = 1

\* takeDamage leaves hp, state, isInvincible and invincibleTimer as they are.
Untouched(after, before) ==
  /\ after.hp = before.hp
  /\ after.state = before.state
  /\ after.isInvincible = before.isInvincible
  /\ after.invincibleTimer = before.invincibleTimer

Protected(p) == p.isInvincible \/ p.state = "Dead" \/ p.state = "Roll"

\* C2: takeDamage on a player that is invincible, Dead or rolling changes none
\* of hp, state, isInvincible, invincibleTimer; and a frame that starts with
\* such a player (the damage calls come before the player's update) leaves hp
\* as it is.
C2_ProtectedNoOp ==
  /\ [](Protected(player) =>
          \A amount \in 1..maxHp : Untouched(TakeDamage(player, amount), player))
  /\ [][Protected(player) => player'.hp = player.hp]_vars

\* A frame called takeDamage on a player 0.3 s or more into a roll whose
\* invincibility has run out.
C2_Witness ==
  /\ player.state = "Roll"
  /\ player.stateTimer >= 6
  /\ obs.calls = 1
  /\ ~player.isInvincible
  /\ player.hp \in 1..(maxHp - 1)

\* C3: until the update() calls after a survived hit add up to 1.0 s, no step
\* changes hp, loaded or not, however the time is split into frames.
C3_InvincibilityWindow ==
  [][player.sinceHit < invincibleDuration => player'.hp = player.hp]_vars

\* A frame called takeDamage half a second or more after the hit, inside the
\* window, and hp is what the hit left.
C3_Witness ==
  /\ obs.calls = 1
  /\ player.isInvincible
  /\ 2 * player.sinceHit >= invincibleDuration
  /\ player.sinceHit < invincibleDuration
  /\ player.hp = maxHp - 1

\* C4: a Dead player stays Dead through every later step, a model load
\* included, and die() runs at most once.
C4_DeadIsTerminal ==
  [][player.state = "Dead" => player'.state = "Dead"]_vars /\ [](player.deaths <= 1)

\* The player is Dead, the game is over, and the attack button is held.
C4_Witness ==
  /\ player.state = "Dead"
  /\ player.deaths = 1
  /\ game.isGameOver
  /\ input.isAttackPressed

(***************************************************************************)
(* The state machine of the player.                                        *)
(***************************************************************************)
Edges ==
  { <<"Idle", "Run">>, <<"Idle", "Roll">>, <<"Idle", "Attack">>,
    <<"Run", "Idle">>, <<"Run", "Roll">>, <<"Run", "Attack">>,
    <<"Roll", "Idle">>, <<"Attack", "Idle">> }
    \cup { <<from, "Dead">> : from \in PlayerStates \ {"Dead"} }

\* Every input intent a frame may find: stick released, forward or back, each
\* button up or down.
Intents ==
  { [input EXCEPT !.moveVector = [x |-> 0, y |-> y, d |-> 1],
                  !.isAttackPressed = attack,
                  !.isRollPressed = roll] :
      y \in {-1, 0, 1}, attack \in BOOLEAN, roll \in BOOLEAN }

\* The player after update(dt) under the intent in.
Updated(dt, in) == PlayerUpdate(player, dt, in, enemies).player

\* The state a Roll or Attack of timer t is in after dt more ticks.
TimeBound(p, dt) ==
  IF p.stateTimer + dt >= (IF p.state = "Roll" THEN rollDuration ELSE attackDuration)
    THEN "Idle"
    ELSE p.state

\* C5: every change of player.state is one of the listed edges; in Roll and
\* Attack the whole update is the same under every input intent, and the
\* state becomes Idle exactly when stateTimer + dt reaches 0.5 s.
C5_EdgesAndTimeBound ==
  /\ [][player'.state # player.state => <<player.state, player'.state>> \in Edges]_vars
  /\ [](player.state \in {"Roll", "Attack"} =>
          \A dt \in 1..MaxDt, in \in Intents :
            /\ PlayerUpdate(player, dt, in, enemies) = PlayerUpdate(player, dt, input, enemies)
            /\ Updated(dt, in).state = TimeBound(player, dt))

\* The player is halfway through a roll while the stick is pushed and both
\* buttons are held.
C5_Witness ==
  /\ player.state = "Roll"
  /\ player.stateTimer \in 1..(rollDuration - 1)
  /\ input.moveVector.y # 0
  /\ input.isAttackPressed
  /\ input.isRollPressed

\* C6: from Idle or Run, attack pressed gives Attack under every stick and
\* roll input, at the same position; without attack, Idle with the stick
\* pushed gives Run even with roll pressed, and Idle gives Roll exactly when
\* the stick is released and roll is pressed.
C6_GuardOrder ==
  [](player.mixer /\ player.state \in {"Idle", "Run"} =>
       \A dt \in TurnDeltas, in \in Intents :
         /\ in.isAttackPressed =>
              Updated(dt, in).state = "Attack" /\ Updated(dt, in).pos = player.pos
         /\ ~in.isAttackPressed /\ player.state = "Idle" /\ in.moveVector.y # 0 =>
              Updated(dt, in).state = "Run"
         /\ ~in.isAttackPressed /\ player.state = "Idle" =>
              (Updated(dt, in).state = "Roll" <=> in.moveVector.y = 0 /\ in.isRollPressed))

\* A frame has just taken the running player into Attack although the stick
\* is pushed and roll is pressed.
C6_Witness ==
  /\ player.state = "Attack"
  /\ player.stateTimer = 0
  /\ player.pos # <<0, 0, 0>>
  /\ input.isAttackPressed
  /\ input.moveVector.y # 0
  /\ input.isRollPressed

(***************************************************************************)
(* The roll.                                                               *)
(***************************************************************************)
\* The roll that has just ended was never blocked by checkCollision.
FreeRollEnded == obs.rolled /\ ~obs.rollBlocked

C7_Original ==
  [][player.state = "Attack" /\ player'.state = "Idle" => player'.hitPasses = 1]_vars

(***************************************************************************)
(* The attack cone.                                                        *)
(***************************************************************************)
\* The horizontal offset of enemy i from the player.
Offset(i) == << enemies[i].pos[1] - player.pos[1], enemies[i].pos[3] - player.pos[3] >>

\* v is within 45 degrees of the direction f, one of the eight directions
\* of Dir8: a quarter plane around an axis, or a quadrant.
InWedge(f, v) ==
  /\ v # <<0, 0>>
  /\ IF f[1] = 0 THEN f[2] * v[2] >= Abs(v[1])
     ELSE IF f[2] = 0 THEN f[1] * v[1] >= Abs(v[2])
     ELSE f[1] * v[1] >= 0 /\ f[2] * v[2] >= 0

\* Enemy i is alive, at most 4.0 away and at most 45 degrees off forward.
InReach(i) ==
  /\ ~enemies[i].isDead
  /\ Offset(i)[1] * Offset(i)[1] + Offset(i)[2] * Offset(i)[2] <= attackRange * attackRange
  /\ InWedge(PlayerForward(player), Offset(i))

\* This step ran checkAttackHit.
PassRan == player'.hitPasses = player.hitPasses + 1

\* C9: in a step that runs the hit pass an enemy loses hp if and only if it
\* is alive, at most 4.0 from the player and at most 45 degrees off the
\* player's forward vector; no other step takes hp from an enemy.
C9_ConeHit ==
  [][\A i \in DOMAIN enemies :
       enemies'[i].hp < enemies[i].hp <=> PassRan /\ InReach(i)]_vars

\* The player faces -z and the pass has killed enemy 1, which stood 3.0
\* straight ahead.
C9_Witness ==
  /\ player.yaw = 0
  /\ player.hitPasses = 1
  /\ enemies[1].isDead
  /\ enemies[1].pos = <<0, deathPoseY, -120>>
  /\ particles # << >>

(***************************************************************************)
(* Dead enemies.                                                           *)
(***************************************************************************)
\* The roster with every corpse moved far out of everybody's range.
CorpsesRemoved ==
  [k \in DOMAIN enemies |->
     IF enemies[k].isDead THEN [enemies[k] EXCEPT !.pos = <<2000, 0, 2000>>]
     ELSE enemies[k]]

\* After this step every enemy that was alive before it is out of contact
\* range of the player (horizontally).
NoLiveContact ==
  \A i \in DOMAIN enemies :
    \/ enemies[i].isDead
    \/ (enemies'[i].pos[1] - player.pos[1]) * (enemies'[i].pos[1] - player.pos[1])
         + (enemies'[i].pos[3] - player.pos[3]) * (enemies'[i].pos[3] - player.pos[3])
         >= contactRange * contactRange

\* C10: takeDamage() kills a fresh enemy and changes nothing on a dead one;
\* enemy hp is never below 0; a dead enemy is never changed again by any step
\* (it stays dead, never moves, is never damaged by a pass); the heading of
\* every live enemy is what it would be without the corpses; and a frame in
\* which no live enemy is in contact range calls takeDamage on the player not
\* once.
C10_DeadEnemy ==
  /\ [](\A i \in DOMAIN enemies :
          /\ enemies[i].hp >= 0
          /\ enemies[i].isDead => EnemyTakeDamage(enemies[i]) = enemies[i]
          /\ ~enemies[i].isDead /\ enemies[i].hp = enemyHp =>
               EnemyTakeDamage(enemies[i]).isDead)
  /\ [](\A j \in DOMAIN enemies :
          ~enemies[j].isDead =>
            Heading(enemies, j, player.pos) = Heading(CorpsesRemoved, j, player.pos))
  /\ [][\A i \in DOMAIN enemies :
          /\ enemies[i].isDead => enemies'[i] = enemies[i]
          /\ enemies'[i].hp < enemies[i].hp => enemies'[i].isDead]_vars
  /\ [][input' = input /\ NoLiveContact =>
          obs'.calls = 0 /\ player'.hp = player.hp]_vars

\* Enemy 1 lies dead within contact range of the player, who has been hurt
\* by it; enemy 2 is alive and has walked up to within separationRange of
\* the corpse; the last frame called takeDamage on the player not once.
C10_Witness ==
  /\ enemies[1].isDead
  /\ Dist2(player.pos, enemies[1].pos) < contactRange * contactRange
  /\ ~enemies[2].isDead
  /\ enemies[2].pos[3] < 230
  /\ Dist2(enemies[1].pos, enemies[2].pos) < separationRange * separationRange
  /\ obs.calls = 0
  /\ player.hp < maxHp
  /\ ~game.isGameOver

(***************************************************************************)
(* Separation and seeking.                                                 *)
(***************************************************************************)
\* Enemies i and j are two loaded live enemies less than separationRange
\* apart.
Crowded(i, j) ==
  /\ i # j
  /\ enemies[i].mixer /\ enemies[j].mixer
  /\ ~enemies[i].isDead /\ ~enemies[j].isDead
  /\ Dist2(enemies[i].pos, enemies[j].pos) < separationRange * separationRange

\* The player is beyond detectionRange of enemy i.
OutOfSight(i) ==
  Dist2(enemies[i].pos, player.pos) > detectionRange * detectionRange

\* The distance (squared) between enemies i and j after a frame of dt ticks.
GapAfter(i, j, dt) ==
  Dist2(GameUpdate(World, dt, ShortestBurst).enemies[i].pos,
        GameUpdate(World, dt, ShortestBurst).enemies[j].pos)

\* C11 as stated: in every frame two live enemies less than separationRange
\* apart, with the player out of detection range of both, end farther apart
\* than they began; and an enemy at separationRange or more is no
\* neighbour in another's separation sum.
C11_Original ==
  [](/\ \A i, j \in DOMAIN enemies, dt \in HerdDeltas :
          Crowded(i, j) /\ OutOfSight(i) /\ OutOfSight(j) /\ ~game.isGameOver =>
            GapAfter(i, j, dt) > Dist2(enemies[i].pos, enemies[j].pos)
     /\ \A i, j \in DOMAIN enemies :
          Dist2(enemies[i].pos, enemies[j].pos) >= separationRange * separationRange =>
            j \notin Neighbours(enemies, i))

\* Enemy i is alive and the player is within its seeking band:
\* stopRange < distance <= detectionRange.
Seeks(i) ==
  ~enemies[i].isDead /\ InBand(Dist2(enemies[i].pos, player.pos))

\* A frame of dt ticks takes enemy i to another place on the ground.
MovedAfter(i, dt) ==
  \/ GameUpdate(World, dt, ShortestBurst).enemies[i].pos[1] # enemies[i].pos[1]
  \/ GameUpdate(World, dt, ShortestBurst).enemies[i].pos[3] # enemies[i].pos[3]

\* C12 as stated: in a frame of a running game an enemy changes its place if
\* and only if it is alive and the player is within its band at the start of
\* the frame; so an enemy beyond detectionRange stays where it is, and moves
\* in the first frame that finds the player within the band.
C12_Original ==
  [](\A i \in DOMAIN enemies, dt \in HerdDeltas :
       ~game.isGameOver => (MovedAfter(i, dt) <=> Seeks(i)))

(***************************************************************************)
(* Contact damage.                                                         *)
(***************************************************************************)
\* Live enemy i is within 1.5 of the player.
InContact(i) ==
  /\ ~enemies[i].isDead
  /\ Dist2(player.pos, enemies[i].pos) < contactRange * contactRange

\* Enemy i, alive at the start of a frame of dt ticks, is within 1.5 of the
\* player once it has made its move of that frame.
TouchesAfter(i, dt) ==
  /\ ~enemies[i].isDead
  /\ Dist2(player.pos,
           << GameUpdate(World, dt, ShortestBurst).enemies[i].pos[1], 0,
              GameUpdate(World, dt, ShortestBurst).enemies[i].pos[3] >>)
       < contactRange * contactRange

\* The player's hp after a frame of dt ticks.
HpAfter(dt) == GameUpdate(World, dt, ShortestBurst).player.hp

\* C13: in every frame of a running game, whatever its delta, a player that
\* is not invincible, not rolling and not Dead and has a live enemy within
\* 1.5, before or after the enemy's move, loses exactly 1 hp; and hp changes in a frame only if the player is
\* none of the three and a live enemy is within 1.5 after its move.
C13_ContactDamage ==
  [](\A dt \in 1..MaxDt :
       ~game.isGameOver =>
         /\ (\E i \in DOMAIN enemies : InContact(i) \/ TouchesAfter(i, dt))
              /\ ~Protected(player) =>
              HpAfter(dt) = player.hp - 1
         /\ HpAfter(dt) # player.hp =>
              ~Protected(player) /\ \E i \in DOMAIN enemies : TouchesAfter(i, dt))

\* Enemy 1 alone has taken 2 hp from the player in two frames, the second
\* (the last frame) after the invincibility of the first had run out, and
\* still stands within 1.5; the player is in the middle of an attack.
C13_Witness ==
  /\ InContact(1)
  /\ ~InContact(2) /\ ~InContact(3)
  /\ player.hp = maxHp - 2
  /\ obs.calls = 1
  /\ player.sinceHit \in 1..MaxDt
  /\ player.state = "Attack"
  /\ ~game.isGameOver

(***************************************************************************)
(* Game over.                                                              *)
(***************************************************************************)
\* The world w has the player, the enemies, the score, the HP bar, the
\* particles and the camera of the current state.
Frozen(w) ==
  /\ w.player = player
  /\ w.enemies = enemies
  /\ w.game = game
  /\ w.particles = particles
  /\ w.camera = camera

\* C14: once isGameOver is true it stays true through every step; Game.update
\* then changes nothing of the player, the enemies, the score or the
\* particles, for every delta; and no step at all (frame, stick event, model
\* load) changes the player, an enemy's position, hp or isDead, the score or
\* the particles.
C14_GameOverLatch ==
  /\ [][game.isGameOver => game'.isGameOver]_vars
  /\ [](game.isGameOver =>
          \A dt \in 1..MaxDt, burst \in Bursts : Frozen(GameUpdate(World, dt, burst)))
  /\ [][game.isGameOver =>
          /\ player' = player /\ game' = game /\ particles' = particles
          /\ \A i \in DOMAIN enemies :
               /\ enemies'[i].pos = enemies[i].pos
               /\ enemies'[i].hp = enemies[i].hp
               /\ enemies'[i].isDead = enemies[i].isDead]_vars

\* The game is over and a halted frame has run while the stick is pushed
\* and the loaded enemy 2 has the player within its band.
C14_Witness ==
  /\ game.isGameOver
  /\ obs.calls = 0
  /\ input.moveVector.y # 0
  /\ enemies[2].mixer
  /\ Seeks(2)

(***************************************************************************)
(* The per-frame input reset.                                              *)
(***************************************************************************)
NoLook == [x |-> 0, y |-> 0]

\* C15, amended: a frame of a running game ends with lookDelta = (0, 0),
\* after the camera has turned by the lookDelta the frame began with; a frame
\* of a game that is over leaves the input manager, lookDelta included, as it
\* is.
C15_ResetInRunningFrames ==
  [](\A dt \in 1..MaxDt :
       IF game.isGameOver
         THEN GameUpdate(World, dt, ShortestBurst).input = input
         ELSE /\ GameUpdate(World, dt, ShortestBurst).input.lookDelta = NoLook
              /\ GameUpdate(World, dt, ShortestBurst).camera.theta
                   = camera.theta - input.lookDelta.x)

\* The camera has been turned by earlier frames, the game is over, a halted
\* frame has run, and lookDelta holds the mouse moves made since.
C15_Witness ==
  /\ game.isGameOver
  /\ obs.calls = 0
  /\ camera.theta # 0
  /\ input.lookDelta.x = MaxLook

\* C15 as stated: every frame, also one after game over, ends with
\* lookDelta = (0, 0).
C15_Original ==
  [](\A dt \in 1..MaxDt : GameUpdate(World, dt, ShortestBurst).input.lookDelta = NoLook)

AsIfLoaded(dt) ==
  [PlayerUpdate([player EXCEPT !.mixer = TRUE], dt, InputUpdate(input), enemies).player
     EXCEPT !.mixer = player.mixer]

\* C17 as stated: in a frame of a running game a player without a mixer is
\* updated like one with a mixer (input, state transition, movement,
\* invincibility countdown), and a live enemy without a mixer that has the
\* player within its band moves.
C17_Original ==
  [](\A dt \in TurnDeltas :
       ~game.isGameOver =>
         /\ ~player.mixer =>
              GameUpdate(World, dt, ShortestBurst).player = AsIfLoaded(dt)
         /\ \A i \in DOMAIN enemies :
              ~enemies[i].mixer /\ Seeks(i) => MovedAfter(i, dt))

(***************************************************************************)
(* The invincibility timer.                                                *)
(***************************************************************************)
\* C18 as stated: the player's invincibleTimer is never below zero.
C18_Original == [](player.invincibleTimer >= 0)

(***************************************************************************)
(* Button flags.                                                           *)
(***************************************************************************)
\* C19 as stated: while at least one source (the mouse on the window, a
\* finger or the mouse on the on-screen button) holds the attack button,
\* isAttackPressed is true, and while a source holds the on-screen roll button
\* isRollPressed is true.
C19_Original ==
  [](/\ obs.attackHeld # {} => input.isAttackPressed
     /\ obs.rollHeld # {} => input.isRollPressed)

\* C20 as stated: after update() isRollPressed is true only if the space
\* key or an on-screen roll button is held at that moment.
C20_Original ==
  [](InputUpdate(input).isRollPressed => " " \in input.keys \/ obs.rollHeld # {})

(***************************************************************************)
(* The move vector.                                                        *)
(***************************************************************************)
\* The virtual stick is not deflected: it never moved, or was let go.
StickAtRest == obs.stick.x = 0 /\ obs.stick.y = 0

\* C21 as stated: when no directional key is held and the stick is not
\* deflected, update() leaves moveVector = (0, 0), and a frame of a running
\* game takes a loaded player in Run back to Idle.
C21_Original ==
  [](~HasKeyInput(input) /\ StickAtRest =>
       /\ InputUpdate(input).moveVector.x = 0
       /\ InputUpdate(input).moveVector.y = 0
       /\ \A dt \in TurnDeltas :
            player.mixer /\ player.state = "Run" /\ ~game.isGameOver =>
              GameUpdate(World, dt, ShortestBurst).player.state = "Idle")

\* The x and y the keys of K stand for, and the vector update() makes of
\* them: each component divided by the length, 1 or sqrt(2).
KeyX(K) ==
  (IF K \cap {"d", "arrowright"} # {} THEN 1 ELSE 0)
    - (IF K \cap {"a", "arrowleft"} # {} THEN 1 ELSE 0)

KeyY(K) ==
  (IF K \cap {"s", "arrowdown"} # {} THEN 1 ELSE 0)
    - (IF K \cap {"w", "arrowup"} # {} THEN 1 ELSE 0)

KeyboardVector(K) ==
  [x |-> KeyX(K), y |-> KeyY(K), d |-> IF KeyX(K) # 0 /\ KeyY(K) # 0 THEN 2 ELSE 1]

\* C22 as stated: with any nonempty set of directional keys held, update()
\* makes moveVector the keyboard vector, whatever the stick wrote; with no
\* directional key held, moveVector after update() is what the stick events
\* wrote last.
C22_Original ==
  [](/\ \A K \in SUBSET {"w", "s", "a", "d", "arrowup", "arrowright"} :
          K # {} => InputUpdate([input EXCEPT !.keys = K]).moveVector = KeyboardVector(K)
     /\ ~HasKeyInput(input) => InputUpdate(input).moveVector = obs.stick)

C24_ResetClears ==
  /\ [](\A dt \in 1..MaxDt :
          ~game.isGameOver =>
            ~TapGameUpdate(World, dt, ShortestBurst).input.isAttackPressed)
  /\ [](input.isAttackPressed => obs.attackHeld # {})
  /\ [][~input.isAttackPressed /\ input'.isAttackPressed =>
          obs.attackHeld \subseteq obs'.attackHeld
            /\ obs'.attackHeld # obs.attackHeld]_vars

\* The mouse still holds the button, the one attack it started has made its
\* pass and has ended, and the player stands in Idle with the flag cleared.
C24_Witness ==
  /\ obs.attackHeld = {"mouse"}
  /\ ~input.isAttackPressed
  /\ player.state = "Idle"
  /\ player.hasHitAttacked
  /\ ~game.isGameOver

(***************************************************************************)
(* One pass, many enemies.                                                 *)
(***************************************************************************)
\* The enemies that are alive when the frame starts and stand, where the
\* frame's enemy updates have put them, at most 4.0 from the player and at
\* most 45 degrees off the player's forward vector.
Targets(after) ==
  { i \in DOMAIN enemies :
      /\ ~enemies[i].isDead
      /\ (after.enemies[i].pos[1] - player.pos[1]) * (after.enemies[i].pos[1] - player.pos[1])
           + (after.enemies[i].pos[3] - player.pos[3]) * (after.enemies[i].pos[3] - player.pos[3])
           <= attackRange * attackRange
      /\ InWedge(PlayerForward(player),
                 << after.enemies[i].pos[1] - player.pos[1],
                    after.enemies[i].pos[3] - player.pos[3] >>) }

\* The frame that leads to after has run the hit pass, and the pass has
\* killed every target, spawned one hit effect per target and raised the
\* score by 1000 per target.
AllTargetsHit(after, dt) ==
  after.player.hitPasses = player.hitPasses + 1 =>
    /\ \A i \in Targets(after) : after.enemies[i].isDead
    /\ \A i \in DOMAIN enemies \ Targets(after) :
          after.enemies[i].isDead = enemies[i].isDead
    /\ Len(after.particles)
         = Len(EffectUpdate(particles, dt)) + Cardinality(Targets(after)) * particleCount
    /\ after.game.score = game.score + Cardinality(Targets(after)) * 1000

RunHeading == CalculateMoveDirection(player, InputUpdate(input).moveVector)

\* This frame is a Run frame that gets as far as the move.
RunMoves ==
  /\ player.mixer /\ player.state = "Run" /\ ~game.isGameOver
  /\ ~InputUpdate(input).isAttackPressed
  /\ InputUpdate(input).moveVector.x # 0 \/ InputUpdate(input).moveVector.y # 0

\* This frame is a Roll frame.
RollMoves == player.mixer /\ player.state = "Roll" /\ ~game.isGameOver

\* after is p moved by the whole of speed x dt along its direction if the
\* probe is clear, and not at all if it is blocked.
AllOrNothing(p, after, speed, dt) ==
  IF CheckCollision(p, p.moveDirection)
    THEN after.pos = player.pos
    ELSE /\ after.pos[3] = player.pos[3] + p.moveDirection[2] * speed * dt
         /\ after.pos[1] = player.pos[1] + p.moveDirection[1] * speed * dt

\* The timer of a Roll frame: the roll goes on with its timer advanced, or
\* ends in Idle in the frame in which the timer reaches 0.5 s.
RollTimerRuns(after, dt) ==
  IF player.stateTimer + dt >= rollDuration
    THEN after.state = "Idle"
    ELSE after.state = "Roll" /\ after.stateTimer = player.stateTimer + dt

\* C26: a Run or Roll frame whose probe along the direction of movement
\* reports an obstacle nearer than 1.5 leaves the position as it was, and a
\* frame whose probe is clear moves by the whole step; a Roll frame
\* advances the timer blocked or not, so that a roll that was blocked ends
\* in Idle in the first frame in which its time reaches 0.5 s.
C26_BinaryBlock ==
  /\ [](\A dt \in TurnDeltas :
          /\ RunMoves =>
                AllOrNothing(RunHeading, GameUpdate(World, dt, ShortestBurst).player,
                             moveSpeed, dt)
          /\ RollMoves =>
                /\ AllOrNothing(player, GameUpdate(World, dt, ShortestBurst).player,
                                rollSpeed, dt)
                /\ RollTimerRuns(GameUpdate(World, dt, ShortestBurst).player, dt))
  /\ [](player.state = "Roll" => player.stateTimer < rollDuration)
  /\ [](obs.rolled /\ obs.rollBlocked =>
          /\ player.state = "Idle"
          /\ obs.rollTicks >= rollDuration
          /\ obs.rollTicks < rollDuration + MaxDt)

\* A roll into the wall has ended in Idle: every frame of it was blocked
\* and the player stands where the roll began.
C26_Witness ==
  /\ obs.rolled /\ obs.rollBlocked
  /\ player.state = "Idle"
  /\ player.pos[3] = obs.rollStart
  /\ obs.rollTicks >= rollDuration

(***************************************************************************)
(* One pass per Attack.                                                    *)
(***************************************************************************)
\* This step takes the player into Attack.
EntersAttack == player.state # "Attack" /\ player'.state = "Attack"

\* C27: hitPasses counts the passes since the last entry into Attack and is
\* never more than 1, whatever the deltas; every entry into Attack leaves
\* hasHitAttacked false, a step that runs the pass leaves it true, and it
\* goes from true to false only in a step that enters Attack.
C27_OnePassPerAttack ==
  /\ [](player.hitPasses <= 1)
  /\ [](player.hasHitAttacked <=> player.hitPasses = 1)
  /\ [][/\ EntersAttack => ~player'.hasHitAttacked /\ player'.hitPasses = 0
        /\ PassRan => player.state = "Attack" /\ ~player.hasHitAttacked
                         /\ player'.hasHitAttacked
        /\ player.hasHitAttacked /\ ~player'.hasHitAttacked => EntersAttack]_vars

\* The Attack has made its pass and a frame of 0.05 s would find the timer
\* inside the hit window again.
C27_Witness ==
  /\ player.state = "Attack"
  /\ player.hasHitAttacked /\ player.hitPasses = 1
  /\ player.stateTimer + 1 > hitWindowOpen
  /\ player.stateTimer + 1 < hitWindowClose

(***************************************************************************)
(* Corpses and the roster.                                                 *)
(***************************************************************************)
\* Enemy e lies in the death pose: tipped over, at y = 0.5.
InDeathPose(e) == e.fallen /\ e.pos[2] = deathPoseY

\* C28: the roster has its three members in every state, dead or alive; a
\* dead enemy lies in the death pose, a live one stands at y = 0; the step
\* that kills an enemy changes its x and z by no more than a frame's walk
\* and sets the pose, and no later step changes the position, the facing or
\* the pose of a dead enemy.
C28_CorpseFrozen ==
  /\ [](DOMAIN enemies = DOMAIN Roster)
  /\ [](\A i \in DOMAIN enemies :
          IF enemies[i].isDead THEN InDeathPose(enemies[i])
          ELSE ~enemies[i].fallen /\ enemies[i].pos[2] = 0)
  /\ [][\A i \in DOMAIN enemies :
          enemies[i].isDead =>
            /\ enemies'[i].isDead
            /\ enemies'[i].pos = enemies[i].pos
            /\ enemies'[i].facing = enemies[i].facing
            /\ enemies'[i].fallen = enemies[i].fallen]_vars

\* Enemy 1 has been dead for long enough that its hit effect is gone; it
\* lies where it died, within attack range, and a later Attack has made its
\* pass over it while enemy 2 is still alive.
C28_Witness ==
  /\ enemies[1].isDead /\ InDeathPose(enemies[1])
  /\ enemies[1].pos[3] - player.pos[3] <= attackRange
  /\ ~enemies[2].isDead
  /\ particles = << >>
  /\ player.state = "Attack" /\ player.hitPasses = 1

(***************************************************************************)
(* The order of the steps of a frame.                                      *)
(***************************************************************************)
\* The frame up to, and including, the loop's turn for enemy 1.
AfterFirst(dt) ==
  EnemyStep([World EXCEPT !.input = InputUpdate(@), !.calls = 0], 1, dt)

\* The frame up to the end of the loop over the enemies.
AfterLoop(dt) == EnemyLoop([World EXCEPT !.input = InputUpdate(@), !.calls = 0], dt)

GameUpdatePhased(w, dt, burst) ==
  IF w.game.isGameOver THEN [w EXCEPT !.calls = 0]
  ELSE AfterEnemies(
         EnemyLoopPhased([w EXCEPT !.input = InputUpdate(@), !.calls = 0], dt),
         dt, burst)

ColourOf(hp) ==
  IF hp \in {3, 4, 5} THEN "green" ELSE IF hp = 2 THEN "yellow" ELSE "red"

\* C30: every frame of a running game leaves the bar green for hp 3, 4, 5,
\* yellow for hp 2 and red for hp 1 (exactly 20%) and hp 0, hp being the
\* player's hp at the end of that frame; and once a frame has set the bar
\* its colour goes with the hp in every state.
C30_HpBarColour ==
  /\ [](\A dt \in 1..MaxDt :
          ~game.isGameOver =>
            GameUpdate(World, dt, ShortestBurst).game.hpBar
              = ColourOf(GameUpdate(World, dt, ShortestBurst).player.hp))
  /\ [](game.hpBar # "unset" => game.hpBar = ColourOf(player.hp))
  /\ [](player.hp \in 0..5 /\ maxHp = 5)

\* The player is at 1 hp of 5, exactly 20%, the game goes on and the bar
\* is red.
C30_Witness ==
  /\ player.hp = 1
  /\ game.hpBar = "red"
  /\ ~game.isGameOver

(***************************************************************************)
(* The blink.                                                              *)
(***************************************************************************)
\* C31: in every state a player that is not invincible is visible, dead or
\* alive; a step changes the visibility only if the player is invincible
\* before it or after it; a step in which the invincibility ends leaves the
\* player visible; and the frame in which the timer of a loaded player
\* reaches zero ends with the player visible and vulnerable.
C31_VisibleUnlessInvincible ==
  /\ [](~player.isInvincible => player.visible)
  /\ [](\A dt \in 1..MaxDt :
          /\ player.mixer /\ player.isInvincible /\ ~game.isGameOver
          /\ player.invincibleTimer - dt <= 0
          => /\ GameUpdate(World, dt, ShortestBurst).player.visible
             /\ ~GameUpdate(World, dt, ShortestBurst).player.isInvincible)
  /\ [][/\ player'.visible # player.visible =>
             player.isInvincible \/ player'.isInvincible
        /\ player.isInvincible /\ ~player'.isInvincible => player'.visible]_vars

\* The invincibility of a hit has lapsed: the player is vulnerable again,
\* visible, and the timer stands at zero or below.
C31_Witness ==
  /\ player.mixer /\ player.hp \in 1..(maxHp - 1)
  /\ ~player.isInvincible /\ player.visible
  /\ player.invincibleTimer <= 0
  /\ player.sinceHit = invincibleDuration

(***************************************************************************)
(* The life of a particle.                                                 *)
(***************************************************************************)
\* The particles that an effect update with delta dt removes.
Spent(dt) == { k \in DOMAIN particles : particles[k] <= dt }

\* C32, as the code has it: no state holds a particle with life <= 0; an
\* effect update removes exactly the particles whose life it brings to 0 or
\* below and keeps the others, with their life reduced; while frames keep
\* coming, every burst is gone after some time or the game is over with it;
\* and once the game is over no step changes the particles any more.  (The
\* frames that fairness asks for are the frames of the running game.)
C32_RemovedWhileRunning ==
  /\ [](\A k \in DOMAIN particles : particles[k] > 0)
  /\ [](\A dt \in FlockDeltas :
          /\ Len(EffectUpdate(particles, dt)) = Len(particles) - Cardinality(Spent(dt))
          /\ \A k \in DOMAIN EffectUpdate(particles, dt) :
                EffectUpdate(particles, dt)[k] > 0
          /\ ~game.isGameOver =>
                \A k \in DOMAIN GameUpdate(World, dt, ShortestBurst).particles :
                  GameUpdate(World, dt, ShortestBurst).particles[k] > 0)
  /\ (particles # << >>) ~> (particles = << >> \/ game.isGameOver)
  /\ [][game.isGameOver => particles' = particles]_vars
  /\ [][\A dt \in FlockDeltas :
          FrameStaged(dt) <=> ~game.isGameOver /\ Frame(dt, ShortestBurst)]_vars

\* The player has killed enemy 2 and has then been killed by the contact of
\* enemy 1 while the hit effect was in the air: the game is over and the
\* particles of the burst are still in the active set.
C32_Witness ==
  /\ game.isGameOver
  /\ enemies[2].isDead
  /\ particles # << >>

\* C32 as stated: every burst is eventually gone, also when the player
\* dies shortly after the hit.
C32_Original == (particles # << >>) ~> (particles = << >>)

(***************************************************************************)
(* The time between two losses of hp.                                      *)
(***************************************************************************)
\* Frame deltas of 0.05 s and of MaxDt x 0.05 s.
LagDeltas == {1, MaxDt}

\* From the world w on, no sequence of frames with deltas of LagDeltas takes
\* hp from the player in a frame that ends less than budget after w.
RECURSIVE SafeFor(_, _)
SafeFor(w, budget) ==
  \A dt \in LagDeltas :
    \A next \in {GameUpdate(w, dt, ShortestBurst)} :
      /\ next.player.hp < w.player.hp => dt >= budget
      /\ dt < budget => SafeFor(next, budget - dt)

\* The world after this step.
WorldAfter ==
  [ player |-> player', enemies |-> enemies', input |-> input', camera |-> camera',
    particles |-> particles', game |-> game', calls |-> obs'.calls ]

\* C33 as stated: after a frame in which the player has lost hp, the frames
\* that follow take no hp until their deltas add up to 1.0 s, the delta of
\* the second damage frame included.
C33_Original ==
  [][player'.hp < player.hp /\ player'.hp > 0 =>
       SafeFor(WorldAfter, invincibleDuration)]_vars

(***************************************************************************)
(* Several enemies in contact.                                             *)
(***************************************************************************)
\* The live enemies within contact range of the player.
Touching ==
  { i \in DOMAIN enemies :
      ~enemies[i].isDead /\ Dist2(player.pos, enemies[i].pos) < contactRange * contactRange }

\* The enemies that touch the player in a frame of delta dt, each at its
\* contact check.
TouchingIn(dt) == { i \in DOMAIN enemies : TouchesAfter(i, dt) }

\* C34: no step takes more than 1 hp from the player; a frame takes
\* exactly 1 hp when enemies touch a player that is not protected, however
\* many they are, and calls takeDamage once per touching enemy (after a
\* fatal call the fallen player may be out of a later enemy's reach); and
\* a second takeDamage right after a first changes nothing.
C34_OneHpPerFrame ==
  /\ [][player'.hp >= player.hp - 1]_vars
  /\ [](TakeDamage(TakeDamage(player, 1), 1) = TakeDamage(player, 1))
  /\ [](\A dt \in FlockDeltas :
          ~game.isGameOver =>
            /\ GameUpdate(World, dt, ShortestBurst).player.hp >= player.hp - 1
            /\ Cardinality(TouchingIn(dt)) >= 2 /\ ~Protected(player) =>
                 /\ GameUpdate(World, dt, ShortestBurst).calls <= Cardinality(TouchingIn(dt))
                 /\ player.hp > 1 =>
                      GameUpdate(World, dt, ShortestBurst).calls = Cardinality(TouchingIn(dt))
                 /\ GameUpdate(World, dt, ShortestBurst).player.hp = player.hp - 1)

\* The last frame called takeDamage twice, for enemy 1 and for enemy 2, and
\* the player has lost 1 hp in it.
C34_Witness ==
  /\ obs.calls = 2
  /\ Cardinality(Touching) = 2
  /\ player.hp = maxHp - 1
  /\ player.sinceHit \in FlockDeltas

(***************************************************************************)
(* The frame of the player's death.                                        *)
(***************************************************************************)
\* after is the world a frame of delta dt leaves when the player dies in it
\* by contact: the flag is latched, and the steps after the fatal contact
\* have run: the later enemies have had their turn, the effects have been
\* advanced, the player update has run on the Dead player and has changed
\* nothing but its clock, the camera has followed, the UI shows hp 0 and the
\* score, and the input has been reset.
DeathFrame(after, dt) ==
  /\ after.game.isGameOver
  /\ after.player.state = "Dead" /\ after.player.stateTimer = 0
  /\ after.player.pos = <<player.pos[1], deathPoseY, player.pos[3]>>
  /\ after.enemies = AfterLoop(dt).enemies
  /\ after.particles = EffectUpdate(particles, dt)
  /\ after.camera = CameraUpdate(camera, InputUpdate(input))
  /\ after.game.hpBar = "red"
  /\ after.game.score = scorePerKill * Cardinality({i \in DOMAIN enemies : enemies[i].isDead})
  /\ after.input = InputReset(InputUpdate(input))

\* C35: in every state isGameOver is true exactly when hp = 0, and hp = 0
\* exactly when the player is Dead; the frame in which hp reaches 0 ends
\* with the flag set and with every step after the fatal contact done once.
C35_GameOverIffDead ==
  /\ [](game.isGameOver <=> player.hp = 0)
  /\ [](player.hp = 0 <=> player.state = "Dead")
  /\ [](\A dt \in FlockDeltas :
          ~game.isGameOver /\ GameUpdate(World, dt, ShortestBurst).player.hp = 0 =>
            DeathFrame(GameUpdate(World, dt, ShortestBurst), dt))

\* The player has died by the contact of enemy 2 while the hit effect of
\* its kill of enemy 1 was in the air: the game is over, the bar is red and
\* the score is 1000.
C35_Witness ==
  /\ game.isGameOver /\ player.hp = 0 /\ player.state = "Dead"
  /\ game.hpBar = "red" /\ game.score = scorePerKill
  /\ enemies[1].isDead /\ ~enemies[2].isDead
  /\ particles # << >>

(***************************************************************************)
(* The direction of a roll.                                                *)
(***************************************************************************)
\* C36 as stated: a roll that starts from Idle goes along the forward
\* vector the attack cone uses, a roll that starts from Run goes along the
\* move direction of that frame, and no step of a roll changes the
\* direction.
C36_Original ==
  [][/\ player.state = "Idle" /\ player'.state = "Roll" =>
          player'.moveDirection = PlayerForward(player)
     /\ player.state = "Run" /\ player'.state = "Roll" =>
          player'.moveDirection = RunHeading.moveDirection
     /\ player.state = "Roll" /\ player'.state = "Roll" =>
          player'.moveDirection = player.moveDirection]_vars

====
